---- MODULE Spec2Model ----
(***************************************************************************)
(* NeuroSense, preview_heatmap_foot.py: the plantar-pressure heatmap       *)
(* pipeline (render_heatmap, max_pressure_info, make_ticks_exact, the      *)
(* legends of TelaBase) and the playback screen TelaMovimento.             *)
(*                                                                         *)
(* Numbers.  A sensor reading is a float; it is modelled as an integer     *)
(* count of 1/RawDen ADC units.  A pressure is a float in kPa; it is       *)
(* modelled as an integer count of 1/KpaDen kPa, KpaDen = 10000 * RawDen,  *)
(* so that reading * KPA_PER_UNIT (0.0676 = 676/10000) is exact.           *)
(* Python values that are not numbers are tagged records: NaN, None.       *)
(***************************************************************************)
EXTENDS Integers, Sequences, FiniteSets, TLC

VARIABLES
    page,             \* QStackedWidget.currentIndex: "menu" | "estatico" | "movimento"
    fullscreen,       \* TelaBase.left_container hidden by toggle_fullscreen
    idx,              \* TelaMovimento.idx
    framesR, framesL, \* TelaMovimento.framesR / framesL (lists of payloads)
    show_left, show_right,
    timers,           \* the QTimer objects connected to next_frame, each with the
                      \* period of its timeout source (0 when it has none)
    speed,            \* speed_combo.currentIndex()
    view_idx,         \* combo_view.currentIndex()
    view_shown,       \* combo_view.setVisible(...) flag
    label_img_left, label_img_right,   \* what each image label shows
    peak_box,         \* the peaks handed to set_peak_info
    status,           \* the status line
    legend_left, legend_right,         \* each legend label: visibility and pixmap
    lastOp,           \* who ran last (history): "play" (pressed while stopped),
                      \* "replay" (pressed while running), "stop", "timeout",
                      \* or "user" for any other click
    estatico,         \* the TelaEstatico object: a record of its fields
    arg, res          \* input and result of a function under test

guiVars == <<page, fullscreen, idx, framesR, framesL, show_left, show_right,
             timers, speed, view_idx, view_shown, label_img_left, label_img_right,
             peak_box, status, legend_left, legend_right, lastOp>>
vars == <<guiVars, estatico, arg, res>>

----------------------------------------------------------------------------
(* Bounds and units *)

RawDen == 2          \* readings are counted in 1/RawDen ADC units
MaxPresent == 3      \* non-missing sensors in a generated Frame
MaxTicks == 6        \* largest tick count tried
MaxFrames == 2       \* frames per foot a date can hold
MaxTimers == 2       \* QTimer objects the state can hold
MaxScreens == 1      \* screens (TelaEstatico, TelaMovimento) operated in one run

KpaDen == 10000 * RawDen

(* Python values *)
Pending == [t |-> "pending"]                 \* no call made yet
Returned(v) == [t |-> "returned", value |-> v]
None == [t |-> "None"]
NaN == [t |-> "nan"]
Num(v) == [t |-> "num", v |-> v]
isnan(r) == r.t = "nan"

(* Configuration, lines 25-49 *)
CANVAS_W == 340
CANVAS_H == 450
KPA_PER_UNIT == 676      \* 67.6 / 1000.0 kPa per ADC unit, in 1/10000 kPa
Sensors == 1..9          \* "SR1" .. "SR9"

\* sensor -> (x, y) in hundredths of the canvas, right foot
SENSOR_POS_RIGHT ==
    << <<28, 12>>, <<55, 15>>, <<62, 45>>, <<49, 30>>, <<30, 40>>,
       <<53, 59>>, <<51, 72>>, <<49, 85>>, <<34, 85>> >>

SR_NAMES ==
    << "Halux (dedao)", "Metatarso medial", "Metatarso lateral", "Arco medial",
       "Arco lateral", "Mediope", "Calcanhar medial", "Calcanhar central",
       "Calcanhar lateral" >>

\* dict.get(key) and dict.get(key, default)
Get(d, k, default) == IF k \in DOMAIN d THEN d[k] ELSE default

----------------------------------------------------------------------------
(* render_heatmap, first stage: the sparse canvas before gaussian_filter.  *)
(* A canvas is the function from its non-zero pixels <<y, x>> to values;   *)
(* every other pixel of the CANVAS_H x CANVAS_W array holds 0.             *)

ZeroCanvas == [p \in {} |-> 0]
CanvasAt(canvas, p) == IF p \in DOMAIN canvas THEN canvas[p] ELSE 0
CanvasSet(canvas, p, v) ==
    [q \in (IF v = 0 THEN DOMAIN canvas \ {p} ELSE DOMAIN canvas \cup {p}) |->
        IF q = p THEN v ELSE canvas[q]]

\* int(x * CANVAS_W) for the right foot; x in hundredths.  The double products of
\* the table are 95.2, 187.00000000000003, 210.8, 166.6, 102.0, 180.20000000000002,
\* 173.4, 166.6, 115.60000000000001: each truncates as the exact product does.
RightPixelXExactFloor(x) == (x * CANVAS_W) \div 100

\* int((1 - x) * CANVAS_W) with exact real arithmetic (not what the doubles give).
LeftPixelXExact(x) == ((100 - x) * CANVAS_W) \div 100

\* int((1 - x) * CANVAS_W) as IEEE-754 doubles evaluate it.  1 - x is not exact, and
\* for the two abscissae whose exact product is an integer (0.55 -> 153, 0.30 -> 238)
\* the double product is 152.99999999999997 and 237.99999999999997, which int()
\* truncates to 152 and 237.  The other seven products (244.79999999999998, 129.2,
\* 173.4, 159.79999999999998, 166.6, 173.4, 224.39999999999998) truncate as the
\* exact ones do.
LeftPixelX(x) ==
    LET p == (100 - x) * CANVAS_W
    IN  IF p % 100 = 0 THEN (p \div 100) - 1 ELSE p \div 100

\* int(y * CANVAS_H); the double products 54.0, 67.5, 202.5, 135.0, 180.0, 265.5,
\* 324.0, 382.5, 382.5 are exact.
PixelY(y) == (y * CANVAS_H) \div 100

\* coords[f"SR{i}"] turned into the pixel <<y, x>> of lines 137 and 141
Pixel(i, foot_side) ==
    LET x == SENSOR_POS_RIGHT[i][1]
        y == SENSOR_POS_RIGHT[i][2]
    IN  << PixelY(y),
           IF foot_side = "right" THEN RightPixelXExactFloor(x) ELSE LeftPixelX(x) >>

\* the loop with break for continue: it ends at the first missing reading
RECURSIVE FieldLoopBreak(_, _, _, _)
FieldLoopBreak(sr_vals, foot_side, i, canvas) ==
    IF i > 9 THEN [err |-> "", canvas |-> canvas]
    ELSE LET v == Get(sr_vals, i, None)
         IN  IF v.t = "None" THEN [err |-> "TypeError", canvas |-> ZeroCanvas]
             ELSE IF isnan(v) THEN [err |-> "", canvas |-> canvas]
             ELSE FieldLoopBreak(sr_vals, foot_side, i + 1,
                                 CanvasSet(canvas, Pixel(i, foot_side), v.v))

\* the loop of lines 138-142 from sensor i on; np.isnan(None) raises TypeError
RECURSIVE FieldLoop(_, _, _, _)
FieldLoop(sr_vals, foot_side, i, canvas) ==
    IF i > 9 THEN [err |-> "", canvas |-> canvas]
    ELSE LET v == Get(sr_vals, i, None)
         IN  IF v.t = "None" THEN [err |-> "TypeError", canvas |-> ZeroCanvas]
             ELSE IF isnan(v) THEN FieldLoop(sr_vals, foot_side, i + 1, canvas)
             ELSE FieldLoop(sr_vals, foot_side, i + 1,
                            CanvasSet(canvas, Pixel(i, foot_side), v.v))

\* render_heatmap as it would be if it walked sr_vals.items(): coords has no entry
\* for a key outside SR1..SR9
render_heatmap_items(sr_vals, foot_side) ==
    IF DOMAIN sr_vals \subseteq Sensors
    THEN FieldLoop(sr_vals, foot_side, 1, ZeroCanvas)
    ELSE [err |-> "KeyError", canvas |-> ZeroCanvas]

render_heatmap(sr_vals, foot_side) == FieldLoop(sr_vals, foot_side, 1, ZeroCanvas)

----------------------------------------------------------------------------
(* max_pressure_info, lines 159-171 *)

\* the loop with v >= max_adc for v > max_adc: the last of equal readings wins
RECURSIVE PeakLoopLastWins(_, _, _, _)
PeakLoopLastWins(sr_vals, i, max_sr, max_adc) ==
    IF i > 9 THEN <<max_sr, max_adc>>
    ELSE LET v == Get(sr_vals, i, NaN)
         IN  IF ~isnan(v) /\ v.v >= max_adc
             THEN PeakLoopLastWins(sr_vals, i + 1, i, v.v)
             ELSE PeakLoopLastWins(sr_vals, i + 1, max_sr, max_adc)

\* the loop of lines 162-166 from sensor i on
RECURSIVE PeakLoop(_, _, _, _)
PeakLoop(sr_vals, i, max_sr, max_adc) ==
    IF i > 9 THEN <<max_sr, max_adc>>
    ELSE LET v == Get(sr_vals, i, NaN)
         IN  IF ~isnan(v) /\ v.v > max_adc
             THEN PeakLoop(sr_vals, i + 1, i, v.v)
             ELSE PeakLoop(sr_vals, i + 1, max_sr, max_adc)

\* max_sr = 0 stands for None; max_adc starts at -1 ADC unit
max_pressure_info(payload) ==
    LET m == PeakLoop(payload.sr_vals, 1, 0, -1 * RawDen)
    IN  IF m[1] = 0 THEN None
        ELSE [t |-> "peak", sensor_id |-> m[1], nome |-> SR_NAMES[m[1]],
              kpa |-> m[2] * KPA_PER_UNIT, side |-> payload.foot_side, adc |-> m[2]]

----------------------------------------------------------------------------
(* make_ticks_exact, lines 185-199 *)

\* round(a / b, decimals) for a/b >= 0 counted in 1/KpaDen kPa, decimals in {0, 1}.
\* Python rounds the double nearest to a/b; where the exact quotient lies half way
\* between two multiples, the double may lie on either side, so the outcome of a
\* tie is the input tieUp.
Round(a, b, decimals, tieUp) ==
    LET g == IF decimals = 0 THEN KpaDen ELSE KpaDen \div 10
        f == a \div (b * g)
        r == a - f * b * g
    IN  IF 2 * r < b * g \/ (2 * r = b * g /\ ~tieUp) THEN f * g ELSE (f + 1) * g

make_ticks_exact(max_kpa, n_ticks, decimals, tieUp) ==
    LET m == IF max_kpa.t = "None" \/ max_kpa.v <= 0 THEN KpaDen ELSE max_kpa.v
        d == IF decimals.t = "None"
             THEN (IF m < 10 * KpaDen THEN 1 ELSE IF m < 100 * KpaDen THEN 1 ELSE 0)
             ELSE decimals.v
    IN  IF n_ticks = 1 THEN [err |-> "ZeroDivisionError", ticks |-> <<>>]
        ELSE [err |-> "",
              ticks |-> [i \in 1..n_ticks |->
                           IF i < n_ticks THEN Round((i - 1) * m, n_ticks - 1, d, tieUp)
                           ELSE Round(m, 1, d, tieUp)]]

----------------------------------------------------------------------------
(* TelaBase: the legends, lines 279-355 *)

\* the x of a tick mark, lines 344-345: int(margin + frac * (w - 2*margin - 1)) with
\* w = 500, margin = 30, frac = clip(kpa / max_kpa, 0, 1) if max_kpa > 0 else 0
\* Both arguments are ticks, whole multiples of 0.1 kPa; the quotient is taken on the
\* counts of 0.1 kPa, which keeps the product small.
TickX(kpa, max_kpa) ==
    LET u == KpaDen \div 10
    IN  IF max_kpa > 0
        THEN (IF kpa <= 0 THEN 30
              ELSE IF kpa >= max_kpa THEN 30 + 439
              ELSE 30 + (((kpa \div u) * 439) \div (max_kpa \div u)))
        ELSE 30

\* the pixmap: its scale maximum, its tick labels and where each mark is drawn
_create_legend_kpa(max_kpa, ticks) ==
    [max_kpa |-> max_kpa, ticks |-> ticks,
     xs |-> [i \in DOMAIN ticks |-> TickX(ticks[i], max_kpa)]]

_set_legend_pixmap(max_kpa, tieUp) ==
    LET ticks == make_ticks_exact(max_kpa, 6, None, tieUp).ticks
    IN  _create_legend_kpa(ticks[Len(ticks)], ticks)

\* Python's "x or 1.0": None and 0.0 are falsy
OrDefault(x) == IF x.t = "None" \/ x.v = 0 THEN Num(KpaDen) ELSE x

\* update_legends, lines 283-309: <<legend_left, legend_right>> afterwards, given the
\* two labels before (a hidden label keeps its pixmap)
update_legends(ll, lr, max_left_kpa, max_right_kpa, sl, sr, view_mode, tieUp) ==
    IF view_mode = "Ambos" /\ sl /\ sr
    THEN << IF max_left_kpa.t # "None"
            THEN [visible |-> TRUE,
                  pixmap |-> _set_legend_pixmap(
                      IF max_left_kpa.v > 0 THEN max_left_kpa ELSE Num(KpaDen), tieUp)]
            ELSE [ll EXCEPT !.visible = FALSE],
            IF max_right_kpa.t # "None"
            THEN [visible |-> TRUE,
                  pixmap |-> _set_legend_pixmap(
                      IF max_right_kpa.v > 0 THEN max_right_kpa ELSE Num(KpaDen), tieUp)]
            ELSE [lr EXCEPT !.visible = FALSE] >>
    ELSE IF (view_mode = "Esquerdo" \/ ~sr) /\ sl
    THEN << [visible |-> TRUE,
             pixmap |-> _set_legend_pixmap(OrDefault(max_left_kpa), tieUp)],
            [lr EXCEPT !.visible = FALSE] >>
    ELSE IF (view_mode = "Direito" \/ ~sl) /\ sr
    THEN << [ll EXCEPT !.visible = FALSE],
            [visible |-> TRUE,
             pixmap |-> _set_legend_pixmap(OrDefault(max_right_kpa), tieUp)] >>
    ELSE << [ll EXCEPT !.visible = FALSE], [lr EXCEPT !.visible = FALSE] >>

\* _draw_foot, lines 357-366: what the foot's image label shows afterwards, the
\* pixmap composed from render_heatmap(payload["sr_vals"], payload["foot_side"]) and
\* the foot's mask; the pixmap is recorded by the payload it was rendered from
_draw_foot(payload) ==
    [t |-> "pixmap", foot_side |-> payload.foot_side, sr_vals |-> payload.sr_vals]

----------------------------------------------------------------------------
(* TelaMovimento, lines 484-601 *)

\* Frames a date's collections expand to (expand_coleta keeps a sample only when all
\* nine series hold a number): a peak at SR2 = 999 ADC (67.5 kPa), readings of
\* 1/RawDen ADC throughout, readings of -2 ADC throughout (nothing above the scan's
\* initial -1)
SampleVals ==
    << [i \in Sensors |-> Num(IF i = 2 THEN 999 * RawDen ELSE RawDen)],
       [i \in Sensors |-> Num(1)],
       [i \in Sensors |-> Num(-2 * RawDen)] >>

\* a frame dict; its timestamp and coleta_id only feed the status text
Payload(sr_vals, foot_side) == [sr_vals |-> sr_vals, foot_side |-> foot_side]

\* The dates of the database: on date d the right foot's collections expand to d
\* frames and the left foot's to MaxFrames - d, taken in turn from SampleVals
DateFrames(d, foot_side) ==
    LET n == IF foot_side = "right" THEN d ELSE MaxFrames - d
        off == IF foot_side = "right" THEN d ELSE d + 1
    IN  [j \in 1..n |->
            Payload(SampleVals[((off + j) % Len(SampleVals)) + 1], foot_side)]

Dates == 1..MaxFrames

Max(a, b) == IF a >= b THEN a ELSE b

ViewTexts == <<"Direito", "Esquerdo", "Ambos">>

\* speed_combo index -> interval in ms, line 580
IntervalOf(choice) == IF choice = 0 THEN 1000 ELSE IF choice = 1 THEN 200 ELSE 100

\* a widget of the left column can be clicked: the screen is the current page and
\* left_container is not hidden
UiAvailable == page = "movimento" /\ ~fullscreen

\* combo_view.isVisible() with the combo's own flag `shown`: Qt reports a widget
\* visible only when every ancestor up to the window is
ComboViewVisible(shown) == shown /\ page = "movimento" /\ ~fullscreen

\* show_current, lines 542-576, run with idx = i on the lists fR, fL, the flags sl, sr
\* and the combo's flag `shown`; sets the widgets it writes
show_current(i, fR, fL, sl, sr, shown, tieUp) ==
    LET view_mode == IF ComboViewVisible(shown) THEN ViewTexts[view_idx + 1]
                     ELSE (IF sr THEN "Direito" ELSE "Esquerdo")
        max_len == Max(Len(fR), Len(fL))
        drawR == view_mode \in {"Direito", "Ambos"} /\ sr /\ i < Len(fR)
        drawL == view_mode \in {"Esquerdo", "Ambos"} /\ sl /\ i < Len(fL)
        mpR == IF drawR THEN max_pressure_info(fR[i + 1]) ELSE None
        mpL == IF drawL THEN max_pressure_info(fL[i + 1]) ELSE None
        max_kpa_right == IF mpR.t = "None" THEN None ELSE Num(mpR.kpa)
        max_kpa_left == IF mpL.t = "None" THEN None ELSE Num(mpL.kpa)
        legs == IF max_len = 0
                THEN update_legends(legend_left, legend_right, None, None,
                                    sl, sr, view_mode, tieUp)
                ELSE update_legends(legend_left, legend_right, max_kpa_left,
                                    max_kpa_right, sl, sr, view_mode, tieUp)
    IN  /\ label_img_right' = IF max_len # 0 /\ drawR THEN _draw_foot(fR[i + 1]) ELSE None
        /\ label_img_left' = IF max_len # 0 /\ drawL THEN _draw_foot(fL[i + 1]) ELSE None
        /\ peak_box' = IF max_len = 0 THEN <<>>
                       ELSE (IF mpR.t = "None" THEN <<>> ELSE <<mpR>>)
                            \o (IF mpL.t = "None" THEN <<>> ELSE <<mpL>>)
        /\ status' = IF max_len = 0 THEN [kind |-> "Sem leituras validas"]
                     ELSE [kind |-> "Frame", pos |-> i + 1, total |-> max_len,
                           horaR |-> drawR, horaL |-> drawL]
        /\ legend_left' = legs[1]
        /\ legend_right' = legs[2]

\* the widgets show_current writes, left alone
ShownUnchanged ==
    UNCHANGED <<label_img_left, label_img_right, peak_box, status, legend_left,
                legend_right>>

\* TelaBase.__init__, the legends: both hidden, each holding the default bar of 280 kPa
LegendInit == [visible |-> FALSE, pixmap |-> _set_legend_pixmap(Num(280 * KpaDen), FALSE)]

\* TelaBase.__init__ and TelaEstatico.__init__, lines 402-417; date = 0 stands for
\* self.date = None (self.uid only names the database path and is not kept)
TelaEstatico_init ==
    [fullscreen |-> FALSE, idx |-> 0, date |-> 0, coletasR |-> <<>>, coletasL |-> <<>>,
     show_left |-> FALSE, show_right |-> FALSE, view_idx |-> 0, view_shown |-> FALSE,
     label_img_left |-> None, label_img_right |-> None, peak_box |-> <<>>,
     status |-> [kind |-> "pronto"], legend_left |-> LegendInit,
     legend_right |-> LegendInit]

\* TelaBase.__init__ and TelaMovimento.__init__: the fields of the TelaMovimento object
\* as constructed
MovimentoFresh ==
    /\ fullscreen = FALSE
    /\ idx = 0
    /\ framesR = <<>>
    /\ framesL = <<>>
    /\ show_left = FALSE
    /\ show_right = FALSE
    /\ timers = << [active |-> FALSE, interval |-> 0] >>
    /\ speed = 0
    /\ view_idx = 0
    /\ view_shown = FALSE
    /\ label_img_left = None
    /\ label_img_right = None
    /\ peak_box = <<>>
    /\ status = [kind |-> "pronto"]
    /\ legend_left = LegendInit
    /\ legend_right = LegendInit

\* MainWindow.__init__: both screens as constructed, the menu the current page
InitGui ==
    /\ page = "menu"
    /\ MovimentoFresh
    /\ estatico = TelaEstatico_init
    /\ lastOp = "init"

\* the screens whose objects are no longer as constructed
ScreensUsed ==
    (IF MovimentoFresh THEN {} ELSE {"movimento"})
    \cup (IF estatico = TelaEstatico_init THEN {} ELSE {"estatico"})

\* a run operates at most MaxScreens of the two screens
ScreenAllowed(screen) == Cardinality(ScreensUsed \cup {screen}) <= MaxScreens

\* MenuInicial: btn_movimento, line 395
GoMovimento ==
    /\ page = "menu"
    /\ ScreenAllowed("movimento")
    /\ page' = "movimento"
    /\ lastOp' = "user"
    /\ UNCHANGED <<estatico, arg, res>>
    /\ UNCHANGED <<fullscreen, idx, framesR, framesL, show_left, show_right, timers,
                   speed, view_idx, view_shown>>
    /\ ShownUnchanged

\* btn_voltar, line 213
Voltar ==
    /\ UiAvailable
    /\ page' = "menu"
    /\ lastOp' = "user"
    /\ UNCHANGED <<estatico, arg, res>>
    /\ UNCHANGED <<fullscreen, idx, framesR, framesL, show_left, show_right, timers,
                   speed, view_idx, view_shown>>
    /\ ShownUnchanged

\* toggle_fullscreen, lines 270-276; the button sits in left_container itself
toggle_fullscreen ==
    /\ UiAvailable
    /\ fullscreen' = ~fullscreen
    /\ lastOp' = "user"
    /\ UNCHANGED <<estatico, arg, res>>
    /\ UNCHANGED <<page, idx, framesR, framesL, show_left, show_right, timers,
                   speed, view_idx, view_shown>>
    /\ ShownUnchanged

\* the user picks a speed; nothing is connected to the combo
SelectSpeed ==
    /\ UiAvailable
    /\ \E c \in 0..2 : c # speed /\ speed' = c
    /\ lastOp' = "user"
    /\ UNCHANGED <<estatico, arg, res>>
    /\ UNCHANGED <<page, fullscreen, idx, framesR, framesL, show_left, show_right,
                   timers, view_idx, view_shown>>
    /\ ShownUnchanged

\* the user picks a view; nothing is connected to the combo
SelectView ==
    /\ ComboViewVisible(view_shown)
    /\ \E c \in 0..2 : c # view_idx /\ view_idx' = c
    /\ lastOp' = "user"
    /\ UNCHANGED <<estatico, arg, res>>
    /\ UNCHANGED <<page, fullscreen, idx, framesR, framesL, show_left, show_right,
                   timers, speed, view_shown>>
    /\ ShownUnchanged

\* open_heatmap, lines 519-540.  selected: both combos hold data; d: the date chosen;
\* insL, insR: the user's InsolesL / InsolesR.  self.uid and self.date only name the
\* database path and the status text and are not kept.
open_heatmap ==
    /\ UiAvailable
    /\ \E selected \in BOOLEAN :
          IF ~selected
          THEN /\ UNCHANGED <<idx, framesR, framesL, show_left, show_right, view_shown>>
               /\ ShownUnchanged
          ELSE \E d \in Dates : \E insL, insR \in BOOLEAN :
               LET fR == IF insR THEN DateFrames(d, "right") ELSE <<>>
                   fL == IF insL THEN DateFrames(d, "left") ELSE <<>>
               IN  /\ show_left' = insL
                   /\ show_right' = insR
                   /\ framesR' = fR
                   /\ framesL' = fL
                   /\ IF fR = <<>> /\ fL = <<>>
                      THEN /\ UNCHANGED <<idx, view_shown>>
                           /\ ShownUnchanged
                      ELSE /\ view_shown' = (insL /\ insR)
                           /\ idx' = 0
                           /\ \E tieUp \in BOOLEAN :
                                 show_current(0, fR, fL, insL, insR, insL /\ insR, tieUp)
    /\ lastOp' = "user"
    /\ UNCHANGED <<estatico, arg, res>>
    /\ UNCHANGED <<page, fullscreen, timers, speed, view_idx>>

\* QTimer.start(interval) on self.timer: a running timer is stopped and restarted
TimerStart(ts, interval) == [ts EXCEPT ![1] = [active |-> TRUE, interval |-> interval]]

\* QTimer.stop() on self.timer: its timeout source is removed from the event loop
TimerStop(ts) == [ts EXCEPT ![1] = [active |-> FALSE, interval |-> 0]]

\* play as it would be if it made a QTimer of its own on every call
play_spawn ==
    /\ UiAvailable
    /\ timers' = IF Len(timers) < MaxTimers
                 THEN Append(timers, [active |-> TRUE, interval |-> IntervalOf(speed)])
                 ELSE timers
    /\ lastOp' = IF timers[1].active THEN "replay" ELSE "play"
    /\ UNCHANGED <<estatico, arg, res>>
    /\ UNCHANGED <<page, fullscreen, idx, framesR, framesL, show_left, show_right,
                   speed, view_idx, view_shown>>
    /\ ShownUnchanged

\* play, lines 578-581
play ==
    /\ UiAvailable
    /\ timers' = TimerStart(timers, IntervalOf(speed))
    /\ lastOp' = IF timers[1].active THEN "replay" ELSE "play"
    /\ UNCHANGED <<estatico, arg, res>>
    /\ UNCHANGED <<page, fullscreen, idx, framesR, framesL, show_left, show_right,
                   speed, view_idx, view_shown>>
    /\ ShownUnchanged

\* pause, lines 583-584
pause ==
    /\ UiAvailable
    /\ timers' = TimerStop(timers)
    /\ lastOp' = "user"
    /\ UNCHANGED <<estatico, arg, res>>
    /\ UNCHANGED <<page, fullscreen, idx, framesR, framesL, show_left, show_right,
                   speed, view_idx, view_shown>>
    /\ ShownUnchanged

\* stop as it would be without its self.timer.stop()
stop_timer_kept ==
    /\ UiAvailable
    /\ idx' = 0
    /\ \E tieUp \in BOOLEAN :
          show_current(0, framesR, framesL, show_left, show_right, view_shown, tieUp)
    /\ lastOp' = "stop"
    /\ UNCHANGED <<estatico, arg, res>>
    /\ UNCHANGED <<page, fullscreen, framesR, framesL, show_left, show_right,
                   timers, speed, view_idx, view_shown>>

\* stop, lines 586-589
stop ==
    /\ UiAvailable
    /\ timers' = TimerStop(timers)
    /\ idx' = 0
    /\ \E tieUp \in BOOLEAN :
          show_current(0, framesR, framesL, show_left, show_right, view_shown, tieUp)
    /\ lastOp' = "stop"
    /\ UNCHANGED <<estatico, arg, res>>
    /\ UNCHANGED <<page, fullscreen, framesR, framesL, show_left, show_right,
                   speed, view_idx, view_shown>>

\* the body of next_frame (d = 1) and prev_frame (d = -1), lines 591-601
StepFrame(d) ==
    LET max_len == Max(Len(framesR), Len(framesL))
    IN  IF max_len = 0
        THEN UNCHANGED idx /\ ShownUnchanged
        ELSE /\ idx' = (idx + d) % max_len
             /\ \E tieUp \in BOOLEAN :
                   show_current((idx + d) % max_len, framesR, framesL, show_left,
                                show_right, view_shown, tieUp)

\* btn_next clicked
next_frame ==
    /\ UiAvailable
    /\ StepFrame(1)
    /\ lastOp' = "user"
    /\ UNCHANGED <<estatico, arg, res>>
    /\ UNCHANGED <<page, fullscreen, framesR, framesL, show_left, show_right,
                   timers, speed, view_idx, view_shown>>

\* btn_prev clicked
prev_frame ==
    /\ UiAvailable
    /\ StepFrame(-1)
    /\ lastOp' = "user"
    /\ UNCHANGED <<estatico, arg, res>>
    /\ UNCHANGED <<page, fullscreen, framesR, framesL, show_left, show_right,
                   timers, speed, view_idx, view_shown>>

\* a running QTimer's timeout, connected to next_frame at line 512; the event loop
\* delivers it whatever page is shown
timeout ==
    /\ \E k \in DOMAIN timers : timers[k].active
    /\ StepFrame(1)
    /\ lastOp' = "timeout"
    /\ UNCHANGED <<estatico, arg, res>>
    /\ UNCHANGED <<page, fullscreen, framesR, framesL, show_left, show_right,
                   timers, speed, view_idx, view_shown>>

Init == InitGui /\ arg = None /\ res = Pending

Next ==
    \/ GoMovimento \/ Voltar \/ toggle_fullscreen \/ SelectSpeed \/ SelectView
    \/ open_heatmap \/ play \/ pause \/ stop \/ next_frame \/ prev_frame \/ timeout

Spec == Init /\ [][Next]_vars

----------------------------------------------------------------------------
(* TelaEstatico, lines 401-479.  The object is the record `estatico`; each   *)
(* handler maps the record before to the record after.                       *)

\* the fields of the TelaMovimento object
movimentoVars == <<fullscreen, idx, framesR, framesL, show_left, show_right, timers,
                   speed, view_idx, view_shown, label_img_left, label_img_right,
                   peak_box, status, legend_left, legend_right>>

\* list_coletas_validas(uid, date, side), lines 97-98: the ids of the date's valid
\* collections, as many per foot as the date has frames
list_coletas_validas(d, foot_side) == [j \in 1..Len(DateFrames(d, foot_side)) |-> j]

\* get_coleta, lines 100-106: None when the path holds no data, which is the case for
\* self.date = None and when the collection is gone since it was listed
get_coleta(date, coleta_id, foot_side, gone) ==
    IF date = 0 \/ gone THEN None ELSE DateFrames(date, foot_side)[coleta_id]

\* a widget of the left column of TelaEstatico can be clicked
EstaticoUiAvailable == page = "estatico" /\ ~estatico.fullscreen

\* view_mode of line 438
Estatico_view_mode(e) ==
    IF e.view_shown /\ page = "estatico" /\ ~e.fullscreen THEN ViewTexts[e.view_idx + 1]
    ELSE (IF e.show_right THEN "Direito" ELSE "Esquerdo")

\* TelaEstatico.show_current, lines 434-469; goneR, goneL: get_coleta finds no data
Estatico_show_current(e, goneR, goneL, tieUp) ==
    LET view_mode == Estatico_view_mode(e)
        max_len == Max(Len(e.coletasR), Len(e.coletasL))
        getR == max_len # 0 /\ view_mode \in {"Direito", "Ambos"} /\ e.show_right
                   /\ e.idx < Len(e.coletasR)
        getL == max_len # 0 /\ view_mode \in {"Esquerdo", "Ambos"} /\ e.show_left
                   /\ e.idx < Len(e.coletasL)
        payloadR == IF getR THEN get_coleta(e.date, e.coletasR[e.idx + 1], "right", goneR)
                    ELSE None
        payloadL == IF getL THEN get_coleta(e.date, e.coletasL[e.idx + 1], "left", goneL)
                    ELSE None
        mpR == IF payloadR # None THEN max_pressure_info(payloadR) ELSE None
        mpL == IF payloadL # None THEN max_pressure_info(payloadL) ELSE None
        max_kpa_right == IF mpR = None THEN None ELSE Num(mpR.kpa)
        max_kpa_left == IF mpL = None THEN None ELSE Num(mpL.kpa)
        legs == update_legends(e.legend_left, e.legend_right, max_kpa_left,
                               max_kpa_right, e.show_left, e.show_right, view_mode, tieUp)
    IN  [e EXCEPT
            !.label_img_right = IF payloadR # None THEN _draw_foot(payloadR) ELSE None,
            !.label_img_left = IF payloadL # None THEN _draw_foot(payloadL) ELSE None,
            !.peak_box = (IF mpR = None THEN <<>> ELSE <<mpR>>)
                         \o (IF mpL = None THEN <<>> ELSE <<mpL>>),
            !.status = IF max_len = 0 THEN [kind |-> "Sem coletas validas"]
                       ELSE [kind |-> "Coleta", pos |-> e.idx + 1, total |-> max_len,
                             horaR |-> payloadR # None, horaL |-> payloadL # None],
            !.legend_left = legs[1],
            !.legend_right = legs[2]]

\* MenuInicial: btn_estatico, line 394
GoEstatico ==
    /\ page = "menu"
    /\ ScreenAllowed("estatico")
    /\ page' = "estatico"
    /\ lastOp' = "user"
    /\ UNCHANGED <<movimentoVars, estatico, arg, res>>

\* btn_voltar of TelaEstatico, line 213
Estatico_Voltar ==
    /\ EstaticoUiAvailable
    /\ page' = "menu"
    /\ lastOp' = "user"
    /\ UNCHANGED <<movimentoVars, estatico, arg, res>>

\* toggle_fullscreen of TelaEstatico, lines 270-276
Estatico_toggle_fullscreen ==
    /\ EstaticoUiAvailable
    /\ estatico' = [estatico EXCEPT !.fullscreen = ~estatico.fullscreen]
    /\ lastOp' = "user"
    /\ UNCHANGED <<page, movimentoVars, arg, res>>

\* the user picks a view on TelaEstatico; nothing is connected to the combo
Estatico_SelectView ==
    /\ EstaticoUiAvailable
    /\ estatico.view_shown
    /\ \E c \in 0..2 : c # estatico.view_idx /\ estatico' = [estatico EXCEPT !.view_idx = c]
    /\ lastOp' = "user"
    /\ UNCHANGED <<page, movimentoVars, arg, res>>

\* TelaEstatico.open_heatmap, lines 424-432.  selected: both combos hold data; d: the
\* date chosen; insL, insR: the user's InsolesL / InsolesR
Estatico_open_heatmap ==
    /\ EstaticoUiAvailable
    /\ \E selected \in BOOLEAN :
          IF ~selected
          THEN estatico' = [estatico EXCEPT !.date = 0]
          ELSE \E d \in Dates : \E insL, insR \in BOOLEAN :
               LET cR == IF insR THEN list_coletas_validas(d, "right") ELSE <<>>
                   cL == IF insL THEN list_coletas_validas(d, "left") ELSE <<>>
                   e1 == [estatico EXCEPT !.date = d, !.show_left = insL,
                                          !.show_right = insR, !.coletasR = cR,
                                          !.coletasL = cL]
               IN  IF cR = <<>> /\ cL = <<>>
                   THEN estatico' = e1
                   ELSE \E goneR, goneL, tieUp \in BOOLEAN :
                           estatico' = Estatico_show_current(
                               [e1 EXCEPT !.view_shown = (insL /\ insR), !.idx = 0],
                               goneR, goneL, tieUp)
    /\ lastOp' = "user"
    /\ UNCHANGED <<page, movimentoVars, arg, res>>

\* the step as it would be if it stopped at either end instead of wrapping
StepColetaClamped(d) ==
    LET max_len == Max(Len(estatico.coletasR), Len(estatico.coletasL))
        i == IF estatico.idx + d \in 0..(max_len - 1) THEN estatico.idx + d
             ELSE estatico.idx
    IN  IF max_len = 0
        THEN UNCHANGED estatico
        ELSE \E goneR, goneL, tieUp \in BOOLEAN :
                estatico' = Estatico_show_current([estatico EXCEPT !.idx = i],
                                                  goneR, goneL, tieUp)

\* the body of next_coleta (d = 1) and prev_coleta (d = -1), lines 471-479
StepColeta(d) ==
    LET max_len == Max(Len(estatico.coletasR), Len(estatico.coletasL))
    IN  IF max_len = 0
        THEN UNCHANGED estatico
        ELSE \E goneR, goneL, tieUp \in BOOLEAN :
                estatico' = Estatico_show_current(
                    [estatico EXCEPT !.idx = (estatico.idx + d) % max_len],
                    goneR, goneL, tieUp)

\* btn_next of TelaEstatico clicked
next_coleta ==
    /\ EstaticoUiAvailable
    /\ StepColeta(1)
    /\ lastOp' = "user"
    /\ UNCHANGED <<page, movimentoVars, arg, res>>

\* btn_prev of TelaEstatico clicked
prev_coleta ==
    /\ EstaticoUiAvailable
    /\ StepColeta(-1)
    /\ lastOp' = "user"
    /\ UNCHANGED <<page, movimentoVars, arg, res>>

\* the application with both screens
NextScreens ==
    \/ GoMovimento \/ Voltar \/ toggle_fullscreen \/ SelectSpeed \/ SelectView
    \/ open_heatmap \/ play \/ pause \/ stop \/ next_frame \/ prev_frame \/ timeout
    \/ GoEstatico \/ Estatico_Voltar \/ Estatico_toggle_fullscreen \/ Estatico_SelectView
    \/ Estatico_open_heatmap \/ next_coleta \/ prev_coleta

SpecScreens == Init /\ [][NextScreens]_vars

----------------------------------------------------------------------------
(* Playback *)

ActiveTimers == {k \in DOMAIN timers : timers[k].active}
TimerRunning == ActiveTimers # {}
MaxLen == Max(Len(framesR), Len(framesL))

\* C1: at most one timer connected to next_frame is ever active; right after play,
\* pressed while stopped or while already running, exactly one is, with the interval of
\* the selected speed; and a timeout moves the position forward by exactly one frame
\* of the loaded sequence (cyclically) and starts no timer.
C1_SingleTimer ==
    /\ [](Cardinality(ActiveTimers) <= 1)
    /\ [](lastOp \in {"play", "replay"} =>
            /\ Cardinality(ActiveTimers) = 1
            /\ \A k \in ActiveTimers : timers[k].interval = IntervalOf(speed))
    /\ [][lastOp' = "timeout" /\ MaxLen > 0 =>
            /\ idx' = (idx + 1) % MaxLen
            /\ UNCHANGED <<timers, framesR, framesL>>]_vars

\* C1 witness: play was pressed while playback was already running, at a later frame
\* and with another speed selected than the one the timer first ran at; one timer runs
C1_Witness ==
    /\ lastOp = "replay"
    /\ idx > 0
    /\ speed = 2
    /\ Cardinality(ActiveTimers) = 1

\* C2: stop leaves no timer running and the position at the first frame, whatever
\* the state before; while no timer runs no timeout happens, and a timer starts
\* running only by play.
C2_StopResets ==
    /\ [][lastOp' = "stop" => (~TimerRunning' /\ idx' = 0)]_vars
    /\ [][~TimerRunning => lastOp' # "timeout"]_vars
    /\ [][~TimerRunning /\ TimerRunning' => lastOp' = "play"]_vars

\* C2 witness: stop has just run on a sequence of several frames
C2_Witness ==
    /\ lastOp = "stop"
    /\ idx = 0
    /\ ~TimerRunning
    /\ MaxLen > 1

----------------------------------------------------------------------------
(* max_pressure_info on generated Frames *)

\* readings tried, in 1/RawDen ADC: -2 ADC, -1 ADC, just below 0, 0, just above 0,
\* 1 ADC, 999 ADC
RawSamples == {-2 * RawDen, -1 * RawDen, -1, 0, 1, RawDen, 999 * RawDen}

PresentSets == {S \in SUBSET Sensors : Cardinality(S) <= MaxPresent}

\* the Frame readings with the sensors of S holding g and every other one missing
FrameOf(S, g) == [i \in Sensors |-> IF i \in S THEN Num(g[i]) ELSE NaN]

InitPeak ==
    /\ InitGui
    /\ res = Pending
    /\ \E S \in PresentSets : \E g \in [S -> RawSamples] :
       \E foot_side \in {"right", "left"} :
          arg = Payload(FrameOf(S, g), foot_side)

ApplyPeak ==
    /\ res = Pending
    /\ res' = Returned(max_pressure_info(arg))
    /\ UNCHANGED <<guiVars, estatico, arg>>

NextPeak == ApplyPeak

SpecPeak == InitPeak /\ [][NextPeak]_vars

PresentIn(sr_vals) == {i \in Sensors : ~isnan(sr_vals[i])}

\* C3: the result is the "no peak" sentinel exactly when every sensor is missing.
C3_SentinelIffAllMissing ==
    res.t = "returned" =>
        (res.value = None <=> PresentIn(arg.sr_vals) = {})

\* C4: a returned PeakInfo names a non-missing sensor whose reading is the largest of
\* the non-missing readings, the lowest such sensor when several share it, and carries
\* that reading and its pressure.
C4_PeakIsLowestMax ==
    (res.t = "returned" /\ res.value # None) =>
        LET s == res.value.sensor_id
            present == PresentIn(arg.sr_vals)
        IN  /\ s \in present
            /\ \A j \in present : arg.sr_vals[j].v <= arg.sr_vals[s].v
            /\ \A j \in present : j < s => arg.sr_vals[j].v < arg.sr_vals[s].v
            /\ res.value.adc = arg.sr_vals[s].v
            /\ res.value.kpa = arg.sr_vals[s].v * KPA_PER_UNIT
            /\ res.value.side = arg.foot_side

\* C4 witness: a PeakInfo was returned for a Frame with a missing sensor before the
\* winner and a later sensor sharing the winner's reading
C4_Witness ==
    /\ res.t = "returned"
    /\ res.value # None
    /\ \E j \in Sensors : j < res.value.sensor_id /\ isnan(arg.sr_vals[j])
    /\ \E j \in PresentIn(arg.sr_vals) :
          j > res.value.sensor_id /\ arg.sr_vals[j].v = res.value.adc

----------------------------------------------------------------------------
(* make_ticks_exact on generated maxima *)

\* maxima tried, in kPa/100: -1, 0, 0.03, 0.07, 0.25, 1, 12.36, 99.96, 100, 100.6,
\* 135.2, 280; and the pressures of 1/RawDen ADC and of 999 ADC
TickMaxInputs ==
    {None}
    \cup {Num((c * KpaDen) \div 100) :
             c \in {-100, 0, 3, 7, 25, 100, 1236, 9996, 10000, 10060, 13520, 28000}}
    \cup {Num(KPA_PER_UNIT), Num(999 * RawDen * KPA_PER_UNIT)}

InitTicks ==
    /\ InitGui
    /\ res = Pending
    /\ \E m \in TickMaxInputs : \E n \in 1..MaxTicks : \E d \in {None, Num(0), Num(1)} :
          arg = [max_kpa |-> m, n_ticks |-> n, decimals |-> d]

ApplyTicks ==
    /\ res = Pending
    /\ \E tieUp \in BOOLEAN :
          res' = Returned(make_ticks_exact(arg.max_kpa, arg.n_ticks, arg.decimals, tieUp))
    /\ UNCHANGED <<guiVars, estatico, arg>>

NextTicks == ApplyTicks

SpecTicks == InitTicks /\ [][NextTicks]_vars

\* a call with a valid maximum, at least two ticks and the automatic precision
TicksCase ==
    /\ res.t = "returned"
    /\ arg.max_kpa # None
    /\ arg.max_kpa.v > 0
    /\ arg.n_ticks >= 2
    /\ arg.decimals = None

\* C5: the last tick is the input maximum itself.
C5_LastTickIsMax ==
    TicksCase =>
        /\ res.value.err = ""
        /\ res.value.ticks[arg.n_ticks] = arg.max_kpa.v

\* C6: n ticks, in non-decreasing order, the first n-1 the uniformly spaced values at
\* the automatic precision, and every tick within 0 .. reference_max.
C6_TicksUniformWithinRange ==
    TicksCase =>
        LET ticks == res.value.ticks
            n == arg.n_ticks
            m == arg.max_kpa.v
            d == IF m < 100 * KpaDen THEN 1 ELSE 0
        IN  /\ Len(ticks) = n
            /\ \A i \in 1..(n - 1) : ticks[i] <= ticks[i + 1]
            /\ \A i \in 1..(n - 1) :
                  \E tieUp \in BOOLEAN : ticks[i] = Round((i - 1) * m, n - 1, d, tieUp)
            /\ \A i \in 1..n : 0 <= ticks[i] /\ ticks[i] <= m

\* C7: every legend that is shown has a strictly positive scale maximum.
C7_LegendScalePositive ==
    /\ legend_left.visible => legend_left.pixmap.max_kpa > 0
    /\ legend_right.visible => legend_right.pixmap.max_kpa > 0

----------------------------------------------------------------------------
(* render_heatmap on generated Frames *)

\* readings tried, in 1/RawDen ADC: -1 ADC, 0, 5/RawDen ADC
RenderSamples == {-1 * RawDen, 0, 5}

\* FrameOf(S, g) without the key `lacking` (0: none lacks) and with a reading under
\* the key `extra` (0: none added); extra = 10 is "SR10"
Variant(sr_vals, lacking, extra) ==
    [k \in (Sensors \ {lacking}) \cup (IF extra = 0 THEN {} ELSE {extra}) |->
        IF k \in Sensors THEN sr_vals[k] ELSE Num(7)]

InitRender ==
    /\ InitGui
    /\ res = [right |-> Pending, left |-> Pending]
    /\ \E S \in PresentSets : \E g \in [S -> RenderSamples] :
       \E lacking \in {0, 5} : \E extra \in {0, 10} :
          arg = [sr_vals |-> Variant(FrameOf(S, g), lacking, extra)]

RenderRight ==
    /\ res.right = Pending
    /\ res' = [res EXCEPT !.right = Returned(render_heatmap(arg.sr_vals, "right"))]
    /\ UNCHANGED <<guiVars, estatico, arg>>

RenderLeft ==
    /\ res.left = Pending
    /\ res' = [res EXCEPT !.left = Returned(render_heatmap(arg.sr_vals, "left"))]
    /\ UNCHANGED <<guiVars, estatico, arg>>

NextRender == RenderRight \/ RenderLeft

SpecRender == InitRender /\ [][NextRender]_vars

\* the Frame is well formed: readings for exactly SR1..SR9
WellFormed(sr_vals) == DOMAIN sr_vals = Sensors

\* the field of one foot side as the claim describes it
FieldAsClaimed(r, sr_vals, foot_side) ==
    /\ r.value.err = ""
    /\ \A i \in Sensors :
          CanvasAt(r.value.canvas, Pixel(i, foot_side)) =
              (IF isnan(sr_vals[i]) THEN 0 ELSE sr_vals[i].v)
    /\ DOMAIN r.value.canvas \subseteq {Pixel(i, foot_side) : i \in PresentIn(sr_vals)}
    /\ (PresentIn(sr_vals) = {} => r.value.canvas = ZeroCanvas)

\* C8: for a Frame with any subset of SR1..SR9 missing the render completes, a missing
\* sensor's cell is zero, a non-missing sensor's reading is at its own pixel, nothing
\* else is written, and with every sensor missing the field is all zero.
C8_MissingReadingsSkipped ==
    WellFormed(arg.sr_vals) =>
        /\ res.right.t = "returned" => FieldAsClaimed(res.right, arg.sr_vals, "right")
        /\ res.left.t = "returned" => FieldAsClaimed(res.left, arg.sr_vals, "left")

\* C8 witness: both feet rendered for a Frame in which a missing sensor is followed by
\* non-missing ones, one of them reading zero
C8_Witness ==
    /\ WellFormed(arg.sr_vals)
    /\ res.right.t = "returned"
    /\ res.left.t = "returned"
    /\ isnan(arg.sr_vals[1])
    /\ ~isnan(arg.sr_vals[2]) /\ arg.sr_vals[2].v # 0
    /\ ~isnan(arg.sr_vals[9]) /\ arg.sr_vals[9].v = 0

\* a reading keyed by a sensor id outside 1..9
HasForeignKey(sr_vals) == DOMAIN sr_vals \ Sensors # {}

\* C9 as stated: a Frame with a reading under a sensor id outside 1..9 is rejected
\* with an error and no raster.
C9_MalformedRejected ==
    HasForeignKey(arg.sr_vals) =>
        /\ res.right.t = "returned" => res.right.value.err # ""
        /\ res.left.t = "returned" => res.left.value.err # ""

\* C9 as amended: a reading under a sensor id outside 1..9 is ignored; the render of a
\* Frame that has SR1..SR9 completes and returns the raster of those nine readings.
C9_ForeignKeyIgnored ==
    (HasForeignKey(arg.sr_vals) /\ Sensors \subseteq DOMAIN arg.sr_vals) =>
        LET nine == [i \in Sensors |-> arg.sr_vals[i]]
        IN  /\ res.right.t = "returned" =>
                 /\ res.right.value.err = ""
                 /\ res.right.value = FieldLoop(nine, "right", 1, ZeroCanvas)
            /\ res.left.t = "returned" =>
                 /\ res.left.value.err = ""
                 /\ res.left.value = FieldLoop(nine, "left", 1, ZeroCanvas)

\* C9 witness: a Frame with an "SR10" reading was rendered into a non-zero field
C9_Witness ==
    /\ HasForeignKey(arg.sr_vals)
    /\ res.right.t = "returned"
    /\ res.right.value.err = ""
    /\ res.right.value.canvas # ZeroCanvas

\* C10: the left-foot field is the horizontal mirror of the right-foot field of the
\* same readings (column c exchanged with column CANVAS_W - 1 - c), and every sensor's
\* left-foot pixel column is CANVAS_W - 1 minus its right-foot pixel column.
C10_LeftMirrorsRight ==
    /\ \A i \in Sensors :
          /\ Pixel(i, "left")[1] = Pixel(i, "right")[1]
          /\ Pixel(i, "left")[2] = CANVAS_W - 1 - Pixel(i, "right")[2]
    /\ (WellFormed(arg.sr_vals) /\ res.right.t = "returned" /\ res.left.t = "returned") =>
          LET R == res.right.value.canvas
              L == res.left.value.canvas
          IN  /\ \A p \in DOMAIN R : CanvasAt(L, <<p[1], CANVAS_W - 1 - p[2]>>) = R[p]
              /\ \A p \in DOMAIN L : CanvasAt(R, <<p[1], CANVAS_W - 1 - p[2]>>) = L[p]

\* C10 witness: both feet rendered for a Frame in which SR2 and SR5 (the sensors whose
\* exact mirrored abscissa times CANVAS_W is an integer) hold non-zero readings
C10_Witness ==
    /\ WellFormed(arg.sr_vals)
    /\ res.right.t = "returned"
    /\ res.left.t = "returned"
    /\ ~isnan(arg.sr_vals[2]) /\ arg.sr_vals[2].v # 0
    /\ ~isnan(arg.sr_vals[5]) /\ arg.sr_vals[5].v # 0

----------------------------------------------------------------------------
(* render_heatmap, second and third stage: gaussian_filter and the relative *)
(* normalisation, lines 143-144.  A smoothed field is kept at the probe      *)
(* pixels only: the nine sensor pixels of the foot and the four corners.     *)
(* Its values are integer counts of 1/(RawDen * WDen) ADC.                   *)

SIGMA == 60
WDen == 1000000                \* kernel weights are counted in millionths
KernelRadius == 240            \* int(truncate * sigma + 0.5), truncate = 4.0

\* the normalised 1-D kernel of scipy.ndimage.gaussian_filter1d for sigma = SIGMA:
\* exp(-d*d / (2 * SIGMA * SIGMA)) / sum, d = 0 .. KernelRadius, in millionths
GaussKernel ==
    << 6649, 6649, 6646, 6641, 6635, 6626, 6616, 6604, 6591, 6575, 6558, 6539,
       6518, 6495, 6471, 6445, 6417, 6388, 6357, 6324, 6290, 6254, 6217, 6178,
       6138, 6097, 6054, 6009, 5963, 5916, 5868, 5819, 5768, 5716, 5663, 5609,
       5554, 5498, 5441, 5383, 5324, 5265, 5205, 5143, 5082, 5019, 4956, 4893,
       4828, 4764, 4699, 4633, 4568, 4501, 4435, 4368, 4302, 4235, 4167, 4100,
       4033, 3966, 3899, 3832, 3765, 3698, 3631, 3565, 3498, 3432, 3367, 3302,
       3237, 3172, 3108, 3044, 2981, 2918, 2856, 2795, 2734, 2673, 2613, 2554,
       2496, 2438, 2381, 2324, 2268, 2213, 2159, 2105, 2052, 2000, 1949, 1898,
       1849, 1800, 1752, 1705, 1658, 1612, 1568, 1524, 1480, 1438, 1397, 1356,
       1316, 1277, 1239, 1201, 1165, 1129, 1094, 1059, 1026, 993, 961, 930,
       900, 870, 841, 813, 786, 759, 733, 708, 683, 659, 636, 613,
       591, 570, 549, 529, 509, 491, 472, 454, 437, 420, 404, 388,
       373, 359, 344, 331, 317, 305, 292, 280, 269, 258, 247, 236,
       226, 217, 207, 199, 190, 182, 174, 166, 159, 152, 145, 138,
       132, 126, 120, 115, 109, 104, 99, 95, 90, 86, 82, 78,
       74, 70, 67, 63, 60, 57, 54, 52, 49, 47, 44, 42,
       40, 38, 36, 34, 32, 30, 29, 27, 26, 24, 23, 22,
       21, 19, 18, 17, 16, 15, 15, 14, 13, 12, 11, 11,
       10, 10, 9, 9, 8, 8, 7, 7, 6, 6, 6, 5,
       5, 5, 4, 4, 4, 4, 3, 3, 3, 3, 3, 2,
       2 >>

Abs(a) == IF a < 0 THEN -a ELSE a

KernelAt(d) == IF d <= KernelRadius THEN GaussKernel[d + 1] ELSE 0

\* 1-D weight of the source at index b on the output at index a of an axis of n
\* cells, mode "reflect": beyond an edge the input reads b at -1 - b and 2n - 1 - b
\* (the radius is below both n, so no index is reflected twice)
AxisWeight(a, b, n) ==
    KernelAt(Abs(a - b)) + KernelAt(Abs(a + 1 + b)) + KernelAt(Abs(2 * n - 1 - b - a))

\* weight of the source pixel q on the output pixel p (the filter is separable)
Weight(p, q) ==
    (AxisWeight(p[1], q[1], CANVAS_H) * AxisWeight(p[2], q[2], CANVAS_W)) \div WDen

Probes(foot_side) ==
    {Pixel(i, foot_side) : i \in Sensors}
    \cup {<<0, 0>>, <<0, CANVAS_W - 1>>, <<CANVAS_H - 1, 0>>, <<CANVAS_H - 1, CANVAS_W - 1>>}

RECURSIVE WeightedSum(_, _, _)
WeightedSum(canvas, S, p) ==
    IF S = {} THEN 0
    ELSE LET q == CHOOSE x \in S : TRUE
         IN  canvas[q] * Weight(p, q) + WeightedSum(canvas, S \ {q}, p)

\* heatmap = gaussian_filter(canvas, sigma=SIGMA), line 143, at the probe pixels
gaussian_filter(canvas, foot_side) ==
    [p \in Probes(foot_side) |-> WeightedSum(canvas, DOMAIN canvas, p)]

FieldMin(h) == CHOOSE m \in {h[p] : p \in DOMAIN h} : \A p \in DOMAIN h : m <= h[p]
FieldMax(h) == CHOOSE m \in {h[p] : p \in DOMAIN h} : \A p \in DOMAIN h : h[p] <= m

\* 1e-6 of line 144, in field counts
Epsilon == (RawDen * WDen) \div 1000000

\* from this spread on, float32 addition returns the spread itself: half the spacing
\* of float32 values from 32.0 upwards (2^-18 / 2) exceeds 1e-6
AbsorbsEpsilonAt == 32 * RawDen * WDen

\* the denominator without its epsilon
DenominatorNoEpsilon(spread) == spread

\* heatmap.max() - heatmap.min() + 1e-6 as float32 evaluates it
Denominator(spread) ==
    IF spread >= AbsorbsEpsilonAt THEN spread ELSE spread + Epsilon

\* line 144: each cell is the fraction num / den, kept as its numerator over the
\* common denominator; den = 0 stands for the division by zero
Normalize(h) ==
    [den |-> Denominator(FieldMax(h) - FieldMin(h)),
     num |-> [p \in DOMAIN h |-> h[p] - FieldMin(h)]]

\* lines 136-144 of render_heatmap: the intensity before the exponent GAMMA
\* (x ** 0.7 keeps 0, 1 and the order of [0, 1])
heatmap_normalized(sr_vals, foot_side) ==
    Normalize(gaussian_filter(render_heatmap(sr_vals, foot_side).canvas, foot_side))

----------------------------------------------------------------------------
(* the normalisation on generated Frames *)

\* readings tried, in 1/RawDen ADC: -1 ADC, 0, 5/RawDen ADC, 1000000 ADC
NormSamples == {-1 * RawDen, 0, 5, 1000000 * RawDen}

InitNorm ==
    /\ InitGui
    /\ res = Pending
    /\ \E foot_side \in {"right", "left"} :
          \/ \E S \in PresentSets : \E g \in [S -> NormSamples] :
                arg = Payload(FrameOf(S, g), foot_side)
          \/ \E c \in NormSamples :
                arg = Payload([i \in Sensors |-> Num(c)], foot_side)

ApplyNorm ==
    /\ res = Pending
    /\ res' = Returned(heatmap_normalized(arg.sr_vals, arg.foot_side))
    /\ UNCHANGED <<guiVars, estatico, arg>>

NextNorm == ApplyNorm

SpecNorm == InitNorm /\ [][NextNorm]_vars

\* C11: for a Frame with at least one non-missing reading, whatever the readings
\* (all equal, zero or negative included), the normalisation divides by a non-zero
\* denominator and every cell of the normalised field lies in [0, 1]; the denominator
\* is non-zero for the all-missing Frame as well.
C11_IntensityInUnitRange ==
    res.t = "returned" =>
        /\ res.value.den > 0
        /\ PresentIn(arg.sr_vals) # {} =>
              \A p \in DOMAIN res.value.num :
                 0 <= res.value.num[p] /\ res.value.num[p] <= res.value.den

\* C11 witness: a Frame of nine readings of zero was normalised; the smoothed field is
\* flat and the denominator is the epsilon alone
C11_Witness ==
    /\ res.t = "returned"
    /\ \A i \in Sensors : arg.sr_vals[i] = Num(0)
    /\ res.value.den = Epsilon
    /\ \A p \in DOMAIN res.value.num : res.value.num[p] = 0

----------------------------------------------------------------------------
(* The colour of a cell, lines 146-153, and the composition of _draw_foot,   *)
(* line 362.  A pixel is [r, g, b, a], each 0..255; a raster is kept as a    *)
(* sequence of sampled pixels.                                               *)

FracDen == 4                   \* frac is taken at the quarters of [0, 1]

RGBA(r, g, b, a) == [r |-> r, g |-> g, b |-> b, a |-> a]

\* lines 147-153 for frac = k / FracDen: hue = (1 - frac) * 240, the six-sector
\* conversion of HSV(hue, 1, 1) and alpha = 180 + 75 * frac, each cut to uint8.
\* At the quarters h * 6.0 is the whole number 4, 3, 2, 1, 0 in float32 as well.
Colorize(k) ==
    LET n == 4 * (FracDen - k)               \* h * 6.0, in 1/FracDen
        i == (n \div FracDen) % 6
        f == n % FracDen
        v == FracDen
        p == 0
        q == FracDen - f
        t == f
        u8(x) == (255 * x) \div FracDen
    IN  RGBA(u8(<<v, q, p, p, t, v>>[i + 1]),
             u8(<<t, v, v, q, p, p>>[i + 1]),
             u8(<<p, p, t, v, v, q>>[i + 1]),
             (180 * FracDen + 75 * k) \div FracDen)

\* Pillow's rounded division by 255: SHIFTFORDIV255(a) = ((a >> 8) + a) >> 8
SHIFTFORDIV255(a) == ((a \div 256) + a) \div 256

\* one pixel of PIL.Image.alpha_composite(im1, im2), "im2 over im1", as Pillow's
\* AlphaComposite.c computes it on 8-bit channels with 7 bits of extra precision:
\* dst is the pixel of im1 (the bottom layer), src the pixel of im2 (the top layer)
CompositePixel(dst, src) ==
    IF src.a = 0 THEN dst
    ELSE LET blend == dst.a * (255 - src.a)
             outa255 == src.a * 255 + blend
             coef1 == (src.a * 255 * 255 * 128) \div outa255
             coef2 == 255 * 128 - coef1
             ch(s, d) == SHIFTFORDIV255(s * coef1 + d * coef2 + 128 * 128) \div 128
         IN  RGBA(ch(src.r, dst.r), ch(src.g, dst.g), ch(src.b, dst.b),
                  SHIFTFORDIV255(outa255 + 128))

alpha_composite(im1, im2) == [j \in DOMAIN im1 |-> CompositePixel(im1[j], im2[j])]

\* the composition with the layers exchanged: the heatmap over the mask
combined_heatmap_on_top(img_heatmap, mask) == alpha_composite(mask, img_heatmap)

\* combined = Image.alpha_composite(img_heatmap, mask), line 362
combined(img_heatmap, mask) == alpha_composite(img_heatmap, mask)

----------------------------------------------------------------------------
(* the composition on generated rasters *)

RasterLen == 2                 \* pixels sampled from a raster

\* pixels of a silhouette mask: three colours at five opacities
MaskPixels ==
    {RGBA(c[1], c[2], c[3], a) :
        c \in {<<0, 0, 0>>, <<255, 255, 255>>, <<10, 200, 90>>},
        a \in {0, 1, 128, 254, 255}}

ColorPixels == {Colorize(k) : k \in 0..FracDen}

InitComposite ==
    /\ InitGui
    /\ res = Pending
    /\ \E h \in [1..RasterLen -> ColorPixels] : \E m \in [1..RasterLen -> MaskPixels] :
          arg = [img_heatmap |-> h, mask |-> m]

ApplyComposite ==
    /\ res = Pending
    /\ res' = Returned(combined(arg.img_heatmap, arg.mask))
    /\ UNCHANGED <<guiVars, estatico, arg>>

NextComposite == ApplyComposite

SpecComposite == InitComposite /\ [][NextComposite]_vars

Between(x, a, b) == (a <= x /\ x <= b) \/ (b <= x /\ x <= a)

\* C12: the composite is the mask over the colour field.  Where the mask is fully
\* transparent the composite pixel is the colour field's pixel unchanged; where the
\* mask is fully opaque it is the mask's pixel; in between, its alpha is the "over"
\* alpha a_mask + a_field * (1 - a_mask) rounded to 8 bits and each channel lies
\* between the two layers' values.
C12_MaskOverColorField ==
    res.t = "returned" =>
        \A j \in 1..RasterLen :
            LET c == arg.img_heatmap[j]
                m == arg.mask[j]
                o == res.value[j]
                a255 == m.a * 255 + c.a * (255 - m.a)
            IN  /\ m.a = 0 => o = c
                /\ m.a = 255 => o = m
                /\ 255 * o.a - a255 \in -127..127
                /\ Between(o.r, c.r, m.r) /\ Between(o.g, c.g, m.g)
                /\ Between(o.b, c.b, m.b)

\* C12 witness: a raster was composed whose first pixel lies under a fully
\* transparent mask pixel and whose second lies under a fully opaque mask pixel of
\* another colour than the field's
C12_Witness ==
    /\ res.t = "returned"
    /\ arg.mask[1].a = 0
    /\ res.value[1] = arg.img_heatmap[1]
    /\ arg.mask[2].a = 255
    /\ arg.mask[2] # arg.img_heatmap[2]
    /\ res.value[2] = arg.mask[2]

----------------------------------------------------------------------------
(* The legends of the playback screen *)

\* the peak pressure of a frame: its largest non-missing reading, in 1/KpaDen kPa
PeakKpaOf(sr_vals) ==
    LET s == CHOOSE i \in PresentIn(sr_vals) :
                 \A j \in PresentIn(sr_vals) : sr_vals[j].v <= sr_vals[i].v
    IN  sr_vals[s].v * KPA_PER_UNIT

\* both feet are on display: show_current drew a frame for each
BothFeetShown == label_img_left # None /\ label_img_right # None

\* C13: while both feet are displayed, each legend is shown and its scale maximum is
\* the peak pressure of the frame displayed for its own foot.
C13_LegendPerFoot ==
    BothFeetShown =>
        /\ legend_left.visible
        /\ legend_left.pixmap.max_kpa = PeakKpaOf(label_img_left.sr_vals)
        /\ legend_right.visible
        /\ legend_right.pixmap.max_kpa = PeakKpaOf(label_img_right.sr_vals)

----------------------------------------------------------------------------
(* The position in the loaded sequence, on both screens *)

EstaticoMaxLen == Max(Len(estatico.coletasR), Len(estatico.coletasL))

\* the position after and before i in a cycle of n
NextOf(i, n) == IF i = n - 1 THEN 0 ELSE i + 1
PrevOf(i, n) == IF i = 0 THEN n - 1 ELSE i - 1

\* everything show_current writes on TelaMovimento
shownVars == <<label_img_left, label_img_right, peak_box, status, legend_left,
               legend_right>>

\* C14: on either screen, whenever something is loaded the position is a valid index
\* of the longer list; a step forward (button or timer) goes to the next position and
\* from the last to the first, a step back goes to the previous one and from the first
\* to the last, and a step back from where a step forward arrived returns to where it
\* left; with nothing loaded a step changes neither the position nor the display.
C14_FrameIndexInRange ==
    /\ [](MaxLen > 0 => idx \in 0..(MaxLen - 1))
    /\ [](EstaticoMaxLen > 0 => estatico.idx \in 0..(EstaticoMaxLen - 1))
    /\ [][(next_frame \/ timeout) /\ MaxLen > 0 =>
             idx' = NextOf(idx, MaxLen) /\ PrevOf(idx', MaxLen) = idx]_vars
    /\ [][prev_frame /\ MaxLen > 0 => idx' = PrevOf(idx, MaxLen)]_vars
    /\ [][(next_frame \/ prev_frame \/ timeout) /\ MaxLen = 0 =>
             UNCHANGED <<idx, shownVars>>]_vars
    /\ [][next_coleta /\ EstaticoMaxLen > 0 =>
             /\ estatico'.idx = NextOf(estatico.idx, EstaticoMaxLen)
             /\ PrevOf(estatico'.idx, EstaticoMaxLen) = estatico.idx]_vars
    /\ [][prev_coleta /\ EstaticoMaxLen > 0 =>
             estatico'.idx = PrevOf(estatico.idx, EstaticoMaxLen)]_vars
    /\ [][(next_coleta \/ prev_coleta) /\ EstaticoMaxLen = 0 => UNCHANGED estatico]_vars

\* C14 witness: TelaEstatico stands at the last of several collections and shows it
C14_Witness ==
    /\ EstaticoMaxLen > 1
    /\ estatico.idx = EstaticoMaxLen - 1
    /\ estatico.status.kind = "Coleta"
    /\ estatico.status.pos = EstaticoMaxLen

----------------------------------------------------------------------------
(* Which legends are shown *)

\* the view mode TelaMovimento.show_current works with, line 546
Movimento_view_mode ==
    IF ComboViewVisible(view_shown) THEN ViewTexts[view_idx + 1]
    ELSE (IF show_right THEN "Direito" ELSE "Esquerdo")

\* a legend is shown only for an enabled foot whose heatmap is on display and has a
\* peak
ShownOnlyIfDrawn(legend, enabled, label_img) ==
    legend.visible =>
        /\ enabled
        /\ label_img # None
        /\ max_pressure_info(label_img) # None

\* the legends ll (left) and lr (right) agree with the view mode
AgreeWithView(ll, lr, view_mode) ==
    /\ ll.visible => view_mode \in {"Esquerdo", "Ambos"}
    /\ lr.visible => view_mode \in {"Direito", "Ambos"}
    /\ view_mode # "Ambos" => ~(ll.visible /\ lr.visible)

\* a step of TelaMovimento that runs show_current, and with it update_legends
MovimentoShows == stop \/ ((next_frame \/ prev_frame \/ timeout) /\ MaxLen > 0)

\* a step of TelaEstatico that runs show_current, and with it update_legends
EstaticoShows == (next_coleta \/ prev_coleta) /\ EstaticoMaxLen > 0

\* C15: on either screen, right after update_legends has run (stop, a step or a timer
\* tick) a legend is visible only for an enabled foot whose heatmap was drawn for the
\* frame on display, has a peak and is selected by the view mode, at most one legend
\* being visible in a single-foot view.
C15_LegendVisibility ==
    /\ [][MovimentoShows =>
             /\ ShownOnlyIfDrawn(legend_left', show_left', label_img_left')
             /\ ShownOnlyIfDrawn(legend_right', show_right', label_img_right')
             /\ AgreeWithView(legend_left', legend_right', Movimento_view_mode)]_vars
    /\ [][EstaticoShows =>
             /\ ShownOnlyIfDrawn(estatico'.legend_left, estatico'.show_left,
                                 estatico'.label_img_left)
             /\ ShownOnlyIfDrawn(estatico'.legend_right, estatico'.show_right,
                                 estatico'.label_img_right)
             /\ AgreeWithView(estatico'.legend_left, estatico'.legend_right,
                              Estatico_view_mode(estatico))]_vars

====
